---- MODULE Spec2Model ----
(***************************************************************************)
(* termiHub guided manual test runner (scripts/test-manual.py).            *)
(*                                                                         *)
(* The session is modelled as the state machine of main(): one action per  *)
(* stretch of code between two suspension points (operator input reads,    *)
(* prerequisite waits).  The pure helpers (load_resume, build_report,      *)
(* get_input, the Infrastructure methods) are operators computed the way   *)
(* the code computes them.                                                 *)
(***************************************************************************)
EXTENDS Integers, Sequences, FiniteSets, TLC

\* ------------------------------------------------------------------ bounds
MaxTests == 3
MaxEntries == 2
MaxClock == 1
\* "docker compose up" runs the model follows; the code sets no limit
MaxLaunches == 2
\* tests the operator attaches a note to; the code sets no limit
MaxNotes == 1
\* cleanup calls in a row that the model follows
MaxCleanups == 2
\* setup steps of one test
MaxSteps == 2
\* the timeout argument of _wait_for_port, in seconds
MaxTimeout == 4

\* --------------------------------------------------------------- constants
None == "None"

Statuses == {"passed", "failed", "skipped", "not_run"}

ResumeNote == "Skipped (completed in previous session)"

VARIABLES
    args,           \* parsed command line: skip_setup, skip_infra, keep_infra
    filtered,       \* filter_tests() result: the tests of the session, in catalog order
    pc,             \* position of the control flow of main()
    completed_ids,  \* main.completed_ids
    infra,          \* the Infrastructure object (constructed = FALSE before line 838)
    env,            \* the outside world the Infrastructure acts on
    atexitHandlers, \* callbacks registered with atexit, in registration order
    cleanupCalls,   \* number of executions of Infrastructure.cleanup
    i,              \* loop index of the main test loop (1-based), 0 before the loop
    pending,        \* prerequisite entries of filtered[i] the for loop of line 884 has yet to visit
    note,           \* get_test_result.note
    results,        \* main.results
    quit_requested, \* main.quit_requested
    clock,          \* wall clock in seconds (time.time(), datetime.now())
    test_start,     \* main.test_start
    disk,           \* report directory: file name -> report written there
    exit,           \* how the process left main: running, a return code or an uncaught exception
    presented,      \* indexes of the tests whose card was printed, in order
    prereqsOf,      \* indexes of the tests whose prerequisite loop was entered
    inputsOf,       \* indexes of the tests for which get_test_result read operator input
    dockerLaunches, \* number of "docker compose up" invocations
    resumeFile,     \* load_resume call under test: the file handed to it
    resumeRet,      \* load_resume call under test: what it returned or raised
    call,           \* Infrastructure method call under test: the call and what it did
    checks,         \* get_test_result.checks: the passed flags run_verification returned
    shown           \* what get_test_result printed in its last step, "none" if nothing

vars == <<args, filtered, pc, completed_ids, infra, env,
          atexitHandlers, cleanupCalls, i, pending, note, results, quit_requested,
          clock, test_start, disk, exit, presented, prereqsOf,
          inputsOf, dockerLaunches, resumeFile, resumeRet, call,
          checks, shown>>

\* ----------------------------------------------------------------- helpers
RECURSIVE SeqsUpTo(_, _)
SeqsUpTo(S, n) ==
    IF n = 0 THEN {<<>>}
    ELSE LET shorter == SeqsUpTo(S, n - 1)
         IN shorter \cup {Append(s, x) : s \in {t \in shorter : Len(t) = n - 1}, x \in S}

Ids(rs) == [k \in 1..Len(rs) |-> rs[k].id]

IdSet(rs) == {rs[k].id : k \in 1..Len(rs)}

\* ------------------------------------------------------------ user input
\* What the terminal hands to input(): a typed line, end of input, or an
\* interrupt signal delivered while the read blocks.
EndOfInput == "<EOF>"

Interrupt == "<SIGINT>"

KeyLines == {"p", "P", "f", "s", "n", "q", " q ", "", "  ", "x"}

NoteLines == {"", "txt"}

\* str.strip().lower() on the lines above
StripLower(line) ==
    CASE line = "P" -> "p"
      [] line = " q " -> "q"
      [] line = "  " -> ""
      [] OTHER -> line

get_input(raw) ==
    IF raw \in {EndOfInput, Interrupt} THEN "q" ELSE StripLower(raw)

\* ---------------------------------------------------------- resume support
\* A prior report file as load_resume meets it.  kind: the file is missing,
\* unreadable (permission), not JSON, JSON that is no object, an object whose
\* "results" is no list, or an object with a results list.  A result entry is
\* an object or not; an object may lack "id" and may lack "status".
EntryStatuses == Statuses \cup {"absent"}

NonObjectEntry == [isObj |-> FALSE, hasId |-> FALSE, id |-> 0, status |-> "absent"]

ResumeEntries(ids) ==
    {NonObjectEntry}
    \cup {[isObj |-> TRUE, hasId |-> TRUE, id |-> n, status |-> s] :
             n \in ids, s \in EntryStatuses}
    \cup {[isObj |-> TRUE, hasId |-> FALSE, id |-> 0, status |-> s] : s \in EntryStatuses}

FaultyKinds == {"missing", "unreadable", "not_json", "not_object", "results_not_list"}

\* the prior reports with up to MaxEntries results about the tests `ids`
ResumeFiles(ids) ==
    {[kind |-> k, results |-> <<>>] : k \in FaultyKinds}
    \cup {[kind |-> "object", results |-> rs] :
             rs \in SeqsUpTo(ResumeEntries(ids), MaxEntries)}

NoResumeFlag == [kind |-> "no_flag", results |-> <<>>]

Returned(ids) == [raised |-> "none", completed |-> ids]

Raised(exc) == [raised |-> exc, completed |-> {}]

\* a completed status that counted every status
AnyStatus == {"passed", "failed", "skipped", "not_run"}

\* the statuses load_resume takes as completed, line 758
CompletedStatuses == {"passed", "failed", "skipped"}

\* the for loop of load_resume, lines 757-759
RECURSIVE CollectCompleted(_, _)
CollectCompleted(entries, completed) ==
    IF entries = <<>> THEN Returned(completed)
    ELSE LET r == Head(entries)
         IN IF ~r.isObj THEN Raised("AttributeError")
            ELSE IF r.status \in CompletedStatuses
                 THEN IF r.hasId
                      THEN CollectCompleted(Tail(entries), completed \cup {r.id})
                      ELSE Raised("KeyError")
                 ELSE CollectCompleted(Tail(entries), completed)

load_resume(file) ==
    CASE file.kind = "missing" -> Raised("FileNotFoundError")
      [] file.kind = "unreadable" -> Raised("PermissionError")
      [] file.kind = "not_json" -> Raised("JSONDecodeError")
      [] file.kind = "not_object" -> Raised("AttributeError")
      [] file.kind = "results_not_list" -> Raised("TypeError")
      [] OTHER -> CollectCompleted(file.results, {})

\* the except clause of main, line 834
CaughtByMain == {"FileNotFoundError", "JSONDecodeError", "KeyError"}

\* ------------------------------------------------------------------ report
CountStatus(rs, s) == Cardinality({k \in 1..Len(rs) : rs[k].status = s})

\* a report whose total leaves the tests not run out
build_report_run_only(rs) ==
    [summary |-> [total |-> Len(rs) - CountStatus(rs, "not_run"),
                  passed |-> CountStatus(rs, "passed"),
                  failed |-> CountStatus(rs, "failed"),
                  skipped |-> CountStatus(rs, "skipped"),
                  not_run |-> CountStatus(rs, "not_run")],
     results |-> rs]

build_report(rs) ==
    [summary |-> [total |-> Len(rs),
                  passed |-> CountStatus(rs, "passed"),
                  failed |-> CountStatus(rs, "failed"),
                  skipped |-> CountStatus(rs, "skipped"),
                  not_run |-> CountStatus(rs, "not_run")],
     results |-> rs]

\* The file name is manual-<ts>-<plat>-<arch>.json with ts the time of the
\* call, to the second; platform and architecture are fixed for the session,
\* so the name is identified with ts.
ReportFileName(now) == now

EmptyDir == [p \in {} |-> build_report(<<>>)]

save_report(dir, report, now) ==
    [p \in DOMAIN dir \cup {ReportFileName(now)} |->
        IF p = ReportFileName(now) THEN report ELSE dir[p]]

\* the readings the clock can give at the next call
Readings(t) == IF t < MaxClock THEN {t, t + 1} ELSE {t}

\* ------------------------------------------------------------ test results
ResumeSkipped(id) ==
    [id |-> id, status |-> "skipped", duration_seconds |-> 0, note |-> ResumeNote]

Recorded(id, status, duration, n) ==
    [id |-> id, status |-> status, duration_seconds |-> duration, note |-> n]

\* the remaining tests recorded as skipped instead of not_run
SkippedRemaining(id) ==
    [id |-> id, status |-> "skipped", duration_seconds |-> 0, note |-> None]

NotRunRemaining(id) ==
    [id |-> id, status |-> "not_run", duration_seconds |-> 0, note |-> None]

\* a membership test that never finds a result
NeverRecorded(id, rs) == TRUE

\* t["id"] not in {r["id"] for r in results}, lines 937 and 941
NoResultYet(id, rs) == id \notin IdSet(rs)

\* remaining_idx, lines 936-939, as a 1-based index
RemainingIdx(flt, rs) ==
    LET missing == {j \in 1..Len(flt) : NoResultYet(flt[j].id, rs)}
    IN IF missing = {} THEN Len(flt) + 1
       ELSE CHOOSE j \in missing : \A k \in missing : j <= k

\* the for loop of lines 940-951, from index j on
RECURSIVE AppendRemaining(_, _, _)
AppendRemaining(flt, j, rs) ==
    IF j > Len(flt) THEN rs
    ELSE IF NoResultYet(flt[j].id, rs)
         THEN AppendRemaining(flt, j + 1, Append(rs, NotRunRemaining(flt[j].id)))
         ELSE AppendRemaining(flt, j + 1, rs)

MarkRemaining(flt, rs) == AppendRemaining(flt, RemainingIdx(flt, rs), rs)

ExitCode(rs) == IF CountStatus(rs, "failed") > 0 THEN "return 1" ELSE "return 0"

\* ---------------------------------------------------------- infrastructure
\* Infrastructure.__init__, lines 152-159; built is FALSE until main runs it
NoInfra ==
    [built |-> FALSE, skip_infra |-> FALSE, keep_infra |-> FALSE,
     docker_started |-> FALSE, socat_proc |-> None, app_proc |-> None,
     config_dir |-> None]

NewInfrastructure(skip_infra, keep_infra) ==
    [built |-> TRUE, skip_infra |-> skip_infra, keep_infra |-> keep_infra,
     docker_started |-> FALSE, socat_proc |-> None, app_proc |-> None,
     config_dir |-> None]

\* The resources outside the process: the container stack, the socat bridge
\* process, the two /tmp/termihub-serial-* links, the generated config dir.
InitialEnv ==
    [stackUp |-> FALSE, socatRunning |-> FALSE, linksExist |-> FALSE,
     configDirExists |-> FALSE]

\* the same with the two links left behind by an earlier run, the case lines
\* 221-223 of start_serial are written for
StaleLinksEnv == [InitialEnv EXCEPT !.linksExist = TRUE]

\* what one call of a method did: the object and the world after it, the
\* value returned or the exception that left it
Outcome(inf, e, ret, exc, launches) ==
    [infra |-> inf, env |-> e, ret |-> ret, raised |-> exc, launches |-> launches]

\* How the world answers one start_docker call: compose file missing, docker
\* binary absent (subprocess.run raises FileNotFoundError), "compose up"
\* exiting non-zero with no container left running or with some of them
\* running, port 2201 answering within the timeout or not, and an interrupt
\* signal during the launch (some containers running) or during the port wait.
DockerAnswers ==
    {"compose_missing", "binary_absent", "launch_failed", "launch_partial",
     "launch_interrupted", "ready", "port_timeout", "wait_interrupted"}

start_docker(inf, e, answer) ==
    IF inf.skip_infra \/ inf.docker_started
    THEN Outcome(inf, e, inf.docker_started, "none", 0)
    ELSE CASE answer = "compose_missing" -> Outcome(inf, e, FALSE, "none", 0)
           [] answer = "binary_absent" -> Outcome(inf, e, FALSE, "FileNotFoundError", 0)
           [] answer = "launch_failed" -> Outcome(inf, e, FALSE, "none", 1)
           [] answer = "launch_partial" ->
                Outcome(inf, [e EXCEPT !.stackUp = TRUE], FALSE, "none", 1)
           [] answer = "launch_interrupted" ->
                Outcome(inf, [e EXCEPT !.stackUp = TRUE], FALSE, "KeyboardInterrupt", 1)
           [] answer = "wait_interrupted" ->
                Outcome([inf EXCEPT !.docker_started = TRUE],
                        [e EXCEPT !.stackUp = TRUE], FALSE, "KeyboardInterrupt", 1)
           [] OTHER ->  \* ready, port_timeout: the value of _wait_for_port is not used
                Outcome([inf EXCEPT !.docker_started = TRUE],
                        [e EXCEPT !.stackUp = TRUE], TRUE, "none", 1)

\* How the world answers one start_serial call: socat not on the PATH, a
\* link left by an earlier run that os.remove may not delete (lines 221-223
\* are outside the try), Popen not finding socat, both links appearing within
\* the 20 polls or not, and an interrupt signal during the polling.
SerialAnswers ==
    {"tool_absent", "stale_link_kept", "popen_not_found", "links_ok", "links_timeout",
     "interrupted"}

\* a start that spawns the bridge whether or not one is held
start_serial_respawn(inf, e, answer) ==
    LET cleared == [e EXCEPT !.linksExist = FALSE]
        spawned == [inf EXCEPT !.socat_proc = "socat"]
    IN IF answer = "links_ok"
       THEN Outcome(spawned, [cleared EXCEPT !.socatRunning = TRUE, !.linksExist = TRUE],
                    TRUE, "none", 0)
       ELSE Outcome(spawned, [cleared EXCEPT !.socatRunning = TRUE], FALSE, "none", 0)

start_serial(inf, e, answer) ==
    IF inf.socat_proc # None
    THEN Outcome(inf, e, TRUE, "none", 0)
    ELSE IF answer = "tool_absent"
    THEN Outcome(inf, e, FALSE, "none", 0)
    ELSE IF answer = "stale_link_kept" /\ e.linksExist
    THEN Outcome(inf, e, FALSE, "PermissionError", 0)
    ELSE LET cleared == [e EXCEPT !.linksExist = FALSE]
             spawned == [inf EXCEPT !.socat_proc = "socat"]
         IN CASE answer = "popen_not_found" -> Outcome(inf, cleared, FALSE, "none", 0)
              [] answer = "links_timeout" ->
                   Outcome(spawned, [cleared EXCEPT !.socatRunning = TRUE], FALSE, "none", 0)
              [] answer = "interrupted" ->
                   Outcome(spawned, [cleared EXCEPT !.socatRunning = TRUE], FALSE,
                           "KeyboardInterrupt", 0)
              [] OTHER ->  \* links_ok, and no stale link to remove
                   Outcome(spawned, [cleared EXCEPT !.socatRunning = TRUE, !.linksExist = TRUE],
                           TRUE, "none", 0)

\* lines 277-283; the content of connections.json is not part of this state
generate_connections(inf, e) ==
    Outcome([inf EXCEPT !.config_dir = "tmpdir"], [e EXCEPT !.configDirExists = TRUE],
            TRUE, "none", 0)

\* What can go wrong in one cleanup call: socat outliving the 5 s wait (it
\* is killed, line 304), os.remove of a link raising, "docker compose down"
\* exiting non-zero (the exit status is not looked at).
CleanupFaults == {"none", "wait_timeout", "remove_failed", "down_failed"}

\* a cleanup that tears the bridge down whenever one was spawned and deletes
\* the links without looking whether they exist
cleanupUnguarded(inf, e, fault) ==
    IF inf.socat_proc # None /\ ~e.linksExist
    THEN Outcome(inf, [e EXCEPT !.socatRunning = FALSE], None, "FileNotFoundError", 0)
    ELSE Outcome(inf, [e EXCEPT !.socatRunning = FALSE, !.linksExist = FALSE,
                               !.stackUp = (@ /\ (inf.keep_infra \/ ~inf.docker_started)),
                               !.configDirExists = FALSE],
                 None, "none", 0)

\* lines 297-327; app_proc is never assigned, its block never runs
cleanup(inf, e, fault) ==
    LET bridge == inf.socat_proc # None /\ e.socatRunning
        e1 == IF bridge
              THEN [e EXCEPT !.socatRunning = FALSE,
                             !.linksExist = (@ /\ fault = "remove_failed")]
              ELSE e
        e2 == IF inf.docker_started /\ ~inf.keep_infra /\ fault # "down_failed"
              THEN [e1 EXCEPT !.stackUp = FALSE]
              ELSE e1
        e3 == IF inf.config_dir # None /\ e2.configDirExists
              THEN [e2 EXCEPT !.configDirExists = FALSE]
              ELSE e2
    IN IF bridge /\ e.linksExist /\ fault = "remove_failed"
       THEN Outcome(inf, e1, None, "PermissionError", 0)
       ELSE Outcome(inf, e3, None, "none", 0)

\* a registration that is forgotten
RegisterNothing(handlers) == handlers

\* atexit.register(infra.cleanup), line 843
Register(handlers) == Append(handlers, "cleanup")

\* the interpreter runs the registered callbacks when the process ends
\* (an exception a callback raises is printed and the next callback runs)
RECURSIVE RunHandlers(_, _, _, _)
RunHandlers(handlers, inf, e, fault) ==
    IF handlers = <<>> THEN e
    ELSE RunHandlers(Tail(handlers), inf, cleanup(inf, e, fault).env, fault)

\* ------------------------------------------------------------ test catalog
\* A prerequisite entry: a mapping with a docker and/or a serial key, or
\* something that is no mapping (a plain string).
Prereq(docker, serial) == [isDict |-> TRUE, docker |-> docker, serial |-> serial]

PlainPrereq == [isDict |-> FALSE, docker |-> FALSE, serial |-> FALSE]

\* A verification: the string "manual", or a mapping with a type; a combined
\* one lists the types of its automated entries.
\* complete: the mapping has the field its type reads (path, name, port).
Manual == [isDict |-> FALSE, type |-> "manual", automated |-> <<>>, complete |-> TRUE]

Automated(type) == [isDict |-> TRUE, type |-> type, automated |-> <<>>, complete |-> TRUE]

\* a mapping that lacks the field its type reads
Incomplete(type) == [isDict |-> TRUE, type |-> type, automated |-> <<>>, complete |-> FALSE]

Combined(automated) ==
    [isDict |-> TRUE, type |-> "combined", automated |-> automated, complete |-> TRUE]

\* A test definition: the fields main reads
Test(id, prerequisites, verification) ==
    [id |-> id, prerequisites |-> prerequisites, verification |-> verification]

PlainTest(id) == Test(id, <<>>, Manual)

DockerTest(id) == Test(id, <<Prereq(TRUE, FALSE), Prereq(TRUE, FALSE)>>, Manual)

SerialTest(id) == Test(id, <<Prereq(FALSE, TRUE), PlainPrereq>>, Manual)

BothTest(id) == Test(id, <<Prereq(TRUE, TRUE)>>, Manual)

CheckedTest(id, verification) == Test(id, <<>>, verification)

\* ------------------------------------------------------------ verification
\* the types run_verification has a branch for, lines 344-391
CheckTypes == {"file_exists", "json_check", "process_running", "port_listening"}

\* the types of the mappings run_verification is applied to for v, in order:
\* v itself, or the entries of its automated list (lines 400-402)
Entries(v) ==
    IF ~v.isDict THEN <<>>
    ELSE IF v.type = "combined" THEN v.automated
    ELSE <<v.type>>

IsCheckType(t) == t \in CheckTypes

\* those that append a check
Probed(v) == SelectSeq(Entries(v), IsCheckType)

\* number of checks run_verification produces for v
NumChecks(v) == Len(Probed(v))

\* How the probes go: every one answers, an interrupt signal arrives during
\* one, or the file of a json_check cannot be opened for lack of permission.
ProbeRuns == {"answered", "interrupted", "unreadable"}

\* run_verification: observed[k] is what the k-th probe finds; the result is
\* the list of the checks' passed flags, or the exception that left it.
\* verification["path"] (lines 345, 353, 372, 392) raises KeyError when the
\* field is missing; open() (line 357) raises PermissionError, which line
\* 368 does not catch.
run_verification(v, observed, probes) ==
    IF v.isDict /\ ~v.complete /\ v.type \in CheckTypes
    THEN [checks |-> <<>>, raised |-> "KeyError"]
    ELSE IF probes = "unreadable" /\ \E k \in 1..NumChecks(v) : Probed(v)[k] = "json_check"
    THEN [checks |-> <<>>, raised |-> "PermissionError"]
    ELSE IF probes = "interrupted" /\ NumChecks(v) > 0
    THEN [checks |-> <<>>, raised |-> "KeyboardInterrupt"]
    ELSE [checks |-> [k \in 1..NumChecks(v) |-> observed[k]], raised |-> "none"]

AllPassed(cs) == \A k \in 1..Len(cs) : cs[k]

\* a reading of the checks in which one passed check is enough
AutomatedStageAnyPassed(cs) ==
    IF cs = <<>> THEN "no_checks"
    ELSE IF \E k \in 1..Len(cs) : cs[k] THEN "all_passed"
    ELSE "some_failed"

\* lines 678-718: what get_test_result makes of the checks
AutomatedStage(cs) ==
    IF cs = <<>> THEN "no_checks"
    ELSE IF AllPassed(cs) THEN "all_passed"
    ELSE "some_failed"

\* ------------------------------------------------------------------- inputs
\* Catalogs of manual tests without prerequisites, of every length up to
\* MaxTests.  load_tests does not reject a repeated id, so next to each
\* catalog with distinct ids there is the one whose last test repeats the
\* id of the first.
Distinct(n) == [k \in 1..n |-> PlainTest(k)]

Repeating(n) == [k \in 1..n |-> PlainTest(IF k = n THEN 1 ELSE k)]

PlainCatalogs == {Distinct(n) : n \in 0..MaxTests} \cup {Repeating(n) : n \in 2..MaxTests}

\* Catalogs whose tests ask for infrastructure
InfraCatalogs ==
    {<<DockerTest(1), DockerTest(2)>>,
     <<SerialTest(1), BothTest(2)>>}

\* Catalogs whose tests carry a verification other than "manual"
CheckedCatalogs ==
    {<<CheckedTest(1, Automated("file_exists")),
       CheckedTest(2, Combined(<<"port_listening", "process_running">>))>>,
     <<CheckedTest(1, Combined(<<>>)), CheckedTest(2, Automated("unknown"))>>,
     <<CheckedTest(1, Automated("json_check")), CheckedTest(2, Incomplete("file_exists"))>>}

\* An id outside the catalog is never looked up, so the prior reports a
\* session is resumed from are those about its own tests.
CatalogIds(flt) == {flt[k].id : k \in 1..Len(flt)}

UniqueIds(flt) == \A j, k \in 1..Len(flt) : flt[j].id = flt[k].id => j = k

Args(skip_setup, skip_infra, keep_infra) ==
    [skip_setup |-> skip_setup, skip_infra |-> skip_infra, keep_infra |-> keep_infra]

ArgSets == [skip_setup : BOOLEAN, skip_infra : BOOLEAN, keep_infra : BOOLEAN]

\* The sessions followed: the flags only act on the infrastructure, so every
\* flag combination is run against the catalogs that use it and the default
\* flags against the others.
Sessions ==
    {[args |-> Args(FALSE, FALSE, FALSE), catalog |-> c, env |-> InitialEnv] :
        c \in PlainCatalogs \cup CheckedCatalogs}
    \cup {[args |-> a, catalog |-> c, env |-> InitialEnv] : a \in ArgSets, c \in InfraCatalogs}
    \cup {[args |-> Args(FALSE, FALSE, FALSE), catalog |-> <<SerialTest(1), BothTest(2)>>,
           env |-> StaleLinksEnv]}

NotCalled == [raised |-> "not_called", completed |-> {}]

\* no Infrastructure method was called on its own
NoCall == [op |-> "none"]

Init ==
    /\ \E session \in Sessions :
          /\ args = session.args
          /\ filtered = session.catalog
          /\ env = session.env
    /\ pc = "start"
    /\ completed_ids = {}
    /\ infra = NoInfra
    /\ atexitHandlers = <<>>
    /\ cleanupCalls = 0
    /\ i = 0
    /\ pending = <<>>
    /\ note = None
    /\ results = <<>>
    /\ quit_requested = FALSE
    /\ clock = 0
    /\ test_start = 0
    /\ disk = EmptyDir
    /\ exit = "running"
    /\ presented = <<>>
    /\ prereqsOf = {}
    /\ inputsOf = {}
    /\ dockerLaunches = 0
    /\ resumeFile = NoResumeFlag
    /\ resumeRet = NotCalled
    /\ call = NoCall
    /\ checks = <<>>
    /\ shown = "none"

inputVars == <<args, filtered>>

resumeVars == <<resumeFile, resumeRet, call>>

infraVars == <<infra, env, dockerLaunches>>

ghostVars == <<presented, prereqsOf, inputsOf>>

dialogVars == <<checks, shown>>

reportVars == <<results, quit_requested, clock, disk>>

\* an exception nothing catches leaves main: the interpreter prints the
\* traceback and ends the process, running the atexit callbacks
Uncaught(exc) ==
    /\ pc' = "exiting"
    /\ exit' = exc

\* ------------------------------------------------------------------ actions
\* lines 803-811: nothing matches the filter
NoTestsMatch ==
    /\ pc = "start"
    /\ filtered = <<>>
    /\ pc' = "exiting"
    /\ exit' = "return 1"
    /\ UNCHANGED <<inputVars, resumeVars, infraVars, ghostVars, dialogVars, reportVars,
                   completed_ids, atexitHandlers, cleanupCalls,
                   i, pending, note, test_start>>

\* lines 828-846: the resume block, then the Infrastructure is built and its
\* cleanup registered
ResumeAndConstruct(file) ==
    /\ pc = "start"
    /\ filtered # <<>>
    /\ LET r == IF file.kind = "no_flag" THEN Returned({}) ELSE load_resume(file)
       IN IF r.raised \notin {"none"} \cup CaughtByMain
          THEN /\ Uncaught(r.raised)
               /\ UNCHANGED <<completed_ids, infra, atexitHandlers>>
          ELSE /\ completed_ids' = r.completed
               /\ infra' = NewInfrastructure(args.skip_infra \/ args.skip_setup,
                                             args.keep_infra)
               /\ atexitHandlers' = Register(atexitHandlers)
               /\ pc' = "begin"
               /\ UNCHANGED exit
    /\ UNCHANGED <<inputVars, resumeVars, ghostVars, dialogVars, reportVars, env, dockerLaunches,
                   cleanupCalls, i, pending, note, test_start>>

\* lines 848-865: the begin prompt, generate_connections, the loop's locals
BeginPrompt(raw) ==
    /\ pc = "begin"
    /\ IF get_input(raw) = "q"
       THEN /\ pc' = "exiting"
            /\ exit' = "return 0"
            /\ UNCHANGED <<infra, env, i>>
       ELSE /\ LET g == IF args.skip_setup THEN Outcome(infra, env, TRUE, "none", 0)
                        ELSE generate_connections(infra, env)
               IN /\ infra' = g.infra
                  /\ env' = g.env
            /\ i' = 1
            /\ pc' = "loop"
            /\ UNCHANGED exit
    /\ UNCHANGED <<inputVars, resumeVars, ghostVars, dialogVars, reportVars, dockerLaunches,
                   completed_ids, atexitHandlers, cleanupCalls,
                   pending, note, test_start>>

\* line 867: the loop is exhausted
LoopDone ==
    /\ pc = "loop"
    /\ i > Len(filtered)
    /\ pc' = "finish"
    /\ UNCHANGED <<inputVars, resumeVars, infraVars, ghostVars, dialogVars, reportVars,
                   completed_ids, atexitHandlers, cleanupCalls,
                   i, pending, note, test_start, exit>>

\* lines 868-880: a test completed in the resumed session
SkipResumed ==
    /\ pc = "loop"
    /\ i <= Len(filtered)
    /\ filtered[i].id \in completed_ids
    /\ results' = Append(results, ResumeSkipped(filtered[i].id))
    /\ i' = i + 1
    /\ UNCHANGED <<inputVars, resumeVars, infraVars, ghostVars, dialogVars, quit_requested,
                   clock, disk, pc, completed_ids, atexitHandlers,
                   cleanupCalls, pending, note, test_start, exit>>

\* an iteration that begins without looking at the completed set
EnterAnyTest ==
    /\ pc = "loop"
    /\ i <= Len(filtered)
    /\ pending' = filtered[i].prerequisites
    /\ prereqsOf' = prereqsOf \cup {i}
    /\ pc' = "prereq"
    /\ UNCHANGED <<inputVars, resumeVars, infraVars, reportVars, dialogVars, presented, inputsOf,
                   completed_ids, atexitHandlers, cleanupCalls,
                   i, note, test_start, exit>>

\* line 883: the iteration for a test that is not in the completed set begins
EnterTest ==
    /\ pc = "loop"
    /\ i <= Len(filtered)
    /\ filtered[i].id \notin completed_ids
    /\ pending' = filtered[i].prerequisites
    /\ prereqsOf' = prereqsOf \cup {i}
    /\ pc' = "prereq"
    /\ UNCHANGED <<inputVars, resumeVars, infraVars, reportVars, dialogVars, presented, inputsOf,
                   completed_ids, atexitHandlers, cleanupCalls,
                   i, note, test_start, exit>>

\* lines 884-890: one prerequisite entry
ResolvePrereq(dockerAnswer, serialAnswer) ==
    /\ pc = "prereq"
    /\ pending # <<>>
    /\ LET prereq == Head(pending)
           idle == Outcome(infra, env, FALSE, "none", 0)
           d == IF prereq.isDict /\ prereq.docker /\ ~infra.skip_infra
                   /\ ~infra.docker_started
                THEN start_docker(infra, env, dockerAnswer)
                ELSE idle
           s == IF d.raised = "none" /\ prereq.isDict /\ prereq.serial
                THEN start_serial(d.infra, d.env, serialAnswer)
                ELSE Outcome(d.infra, d.env, FALSE, d.raised, 0)
       IN /\ d.launches = 0 \/ dockerLaunches < MaxLaunches
          /\ infra' = s.infra
          /\ env' = s.env
          /\ dockerLaunches' = dockerLaunches + d.launches
          /\ IF s.raised # "none"
             THEN /\ Uncaught(s.raised)
                  /\ UNCHANGED pending
             ELSE /\ pending' = Tail(pending)
                  /\ UNCHANGED <<pc, exit>>
    /\ UNCHANGED <<inputVars, resumeVars, ghostVars, dialogVars, reportVars, completed_ids,
                   atexitHandlers, cleanupCalls, i, note, test_start>>

\* a presentation that does not wait for the prerequisite loop to end
PresentEarly ==
    /\ pc = "prereq"
    /\ test_start' = clock
    /\ presented' = Append(presented, i)
    /\ note' = None
    /\ pc' = "menu"
    /\ UNCHANGED <<inputVars, resumeVars, infraVars, reportVars, dialogVars, prereqsOf, inputsOf,
                   completed_ids, atexitHandlers, cleanupCalls,
                   i, pending, exit>>

\* lines 892-897: the card is printed and get_test_result entered
Present ==
    /\ pc = "prereq"
    /\ pending = <<>>
    /\ test_start' = clock
    /\ presented' = Append(presented, i)
    /\ note' = None
    /\ pc' = "menu"
    /\ UNCHANGED <<inputVars, resumeVars, infraVars, reportVars, dialogVars, prereqsOf, inputsOf,
                   completed_ids, atexitHandlers, cleanupCalls,
                   i, pending, exit>>

\* lines 899-932: what main does with the (status, note) get_test_result
\* returned.  test_start is dead afterwards.
Verdict(status, n) ==
    /\ \E now \in Readings(clock) :
          /\ clock' = now
          /\ IF status = "quit"
             THEN /\ results' = Append(results,
                        Recorded(filtered[i].id, "not_run", now - test_start, n))
                  /\ quit_requested' = TRUE
                  /\ pc' = "finish"
                  /\ UNCHANGED <<disk, i>>
             ELSE /\ results' = Append(results,
                        Recorded(filtered[i].id, status, now - test_start, n))
                  /\ disk' = save_report(disk, build_report(results'), now)
                  /\ i' = i + 1
                  /\ pc' = "loop"
                  /\ UNCHANGED quit_requested
    /\ note' = None
    /\ test_start' = 0
    /\ checks' = <<>>
    /\ shown' = "none"
    /\ UNCHANGED pending

\* get_test_result goes on to another prompt with note n, having printed msg
Prompt(next, n, msg) ==
    /\ pc' = next
    /\ note' = n
    /\ shown' = msg
    /\ UNCHANGED <<reportVars, i, pending, test_start>>

\* the verification of the test get_test_result was called with, line 653
verification == IF i \in 1..Len(filtered) THEN filtered[i].verification ELSE Manual

\* if note_text: note = note_text
Noted(raw) == IF get_input(raw) # "" THEN get_input(raw) ELSE note

\* tests of the session that carry an operator's note so far
NotesTaken ==
    Cardinality({k \in 1..Len(results) : results[k].note \notin {None, ResumeNote}})
    + (IF note # None THEN 1 ELSE 0)

\* the operator gives a note to at most MaxNotes tests
MayNote(raw) == get_input(raw) = "" \/ note # None \/ NotesTaken < MaxNotes

\* lines 652-674, 675-686 and 736-742: the key menu; on an empty line with a
\* mapping as verification the probes run and observe `observed`
Menu(raw, observed, probes) ==
    /\ pc = "menu"
    /\ inputsOf' = inputsOf \cup {i}
    /\ LET choice == get_input(raw)
           has_auto == verification.isDict
           r == run_verification(verification, observed, probes)
       IN IF choice = "" /\ has_auto /\ r.raised # "none"
          THEN /\ Uncaught(r.raised)
               /\ UNCHANGED <<reportVars, dialogVars, i, pending, test_start, note>>
          ELSE /\ UNCHANGED exit
               /\ CASE choice = "p" -> Verdict("passed", note)
                    [] choice = "f" -> Prompt("failnote", note, "none") /\ UNCHANGED checks
                    [] choice = "s" -> Verdict("skipped", note)
                    [] choice = "n" -> Prompt("note", note, "none") /\ UNCHANGED checks
                    [] choice = "q" -> Verdict("quit", note)
                    [] choice = "" /\ has_auto ->
                         /\ checks' = r.checks
                         /\ CASE AutomatedStage(r.checks) = "no_checks" ->
                                    Prompt("menu", note, "no_checks")
                              [] AutomatedStage(r.checks) = "all_passed" ->
                                    Prompt("confirm_pass", note, "all_passed")
                              [] OTHER -> Prompt("confirm_fail", note, "some_failed")
                    [] choice = "" -> Prompt("menu", note, "menu_help") /\ UNCHANGED checks
                    [] OTHER -> Prompt("menu", note, "unknown_input") /\ UNCHANGED checks
    /\ UNCHANGED <<inputVars, resumeVars, infraVars, presented, prereqsOf,
                   completed_ids, atexitHandlers, cleanupCalls>>

\* lines 667-672: the note prompt
NoteEntry(raw) ==
    /\ pc = "note"
    /\ MayNote(raw)
    /\ inputsOf' = inputsOf \cup {i}
    /\ Prompt("menu", Noted(raw), IF get_input(raw) # "" THEN "note_recorded" ELSE "none")
    /\ UNCHANGED <<inputVars, resumeVars, infraVars, presented, prereqsOf,
                   completed_ids, atexitHandlers, cleanupCalls, exit, checks>>

\* lines 661-664, 693-696, 707-710, 728-731: the failure note prompt
FailNote(raw) ==
    /\ pc = "failnote"
    /\ MayNote(raw)
    /\ inputsOf' = inputsOf \cup {i}
    /\ Verdict("failed", Noted(raw))
    /\ UNCHANGED <<inputVars, resumeVars, infraVars, presented, prereqsOf,
                   completed_ids, atexitHandlers, cleanupCalls, exit>>

\* after an answer the confirmation does not recognise, lines 720-723: the
\* manual prompt of a combined verification, else the while loop goes round
\* with nothing printed
AfterConfirm == IF verification.type = "combined" THEN "manual" ELSE "menu"

AfterConfirmSays == IF verification.type = "combined" THEN "manual_prompt" ELSE "none"

\* lines 687-714: the confirmation after the checks were shown
Confirm(raw) ==
    /\ pc \in {"confirm_pass", "confirm_fail"}
    /\ inputsOf' = inputsOf \cup {i}
    /\ LET confirm == get_input(raw)
       IN IF pc = "confirm_pass"
          THEN CASE confirm \in {"", "p"} -> Verdict("passed", note)
                 [] confirm = "f" -> Prompt("failnote", note, "none") /\ UNCHANGED checks
                 [] confirm = "s" -> Verdict("skipped", note)
                 [] confirm = "q" -> Verdict("quit", note)
                 [] OTHER -> Prompt(AfterConfirm, note, AfterConfirmSays) /\ UNCHANGED checks
          ELSE CASE confirm = "p" -> Verdict("passed", note)
                 [] confirm \in {"", "f"} -> Prompt("failnote", note, "none") /\ UNCHANGED checks
                 [] confirm = "s" -> Verdict("skipped", note)
                 [] confirm = "q" -> Verdict("quit", note)
                 [] OTHER -> Prompt(AfterConfirm, note, AfterConfirmSays) /\ UNCHANGED checks
    /\ UNCHANGED <<inputVars, resumeVars, infraVars, presented, prereqsOf,
                   completed_ids, atexitHandlers, cleanupCalls, exit>>

\* lines 721-735: the manual prompt of a combined verification
ManualPrompt(raw) ==
    /\ pc = "manual"
    /\ inputsOf' = inputsOf \cup {i}
    /\ LET confirm == get_input(raw)
       IN CASE confirm \in {"", "p"} -> Verdict("passed", note)
            [] confirm = "f" -> Prompt("failnote", note, "none") /\ UNCHANGED checks
            [] confirm = "s" -> Verdict("skipped", note)
            [] confirm = "q" -> Verdict("quit", note)
            [] OTHER -> Prompt("menu", note, "none") /\ UNCHANGED checks
    /\ UNCHANGED <<inputVars, resumeVars, infraVars, presented, prereqsOf,
                   completed_ids, atexitHandlers, cleanupCalls, exit>>

\* lines 934-962: the remaining tests, the final report, the return code
Finish ==
    /\ pc = "finish"
    /\ LET final == IF quit_requested THEN MarkRemaining(filtered, results) ELSE results
       IN /\ results' = final
          /\ \E now \in Readings(clock) :
                /\ clock' = now
                /\ disk' = save_report(disk, build_report(final), now)
          /\ exit' = ExitCode(final)
    /\ pc' = "exiting"
    /\ UNCHANGED <<inputVars, resumeVars, infraVars, ghostVars, dialogVars, quit_requested,
                   completed_ids, atexitHandlers, cleanupCalls,
                   i, pending, note, test_start>>

\* the process ends: the interpreter runs the atexit callbacks
AtExit ==
    /\ pc = "exiting"
    /\ \E fault \in CleanupFaults : env' = RunHandlers(atexitHandlers, infra, env, fault)
    /\ cleanupCalls' = cleanupCalls + Len(atexitHandlers)
    /\ pc' = "terminated"
    /\ UNCHANGED <<inputVars, resumeVars, ghostVars, dialogVars, reportVars, infra, dockerLaunches,
                   completed_ids, atexitHandlers, i, pending, note,
                   test_start, exit>>

Reads == KeyLines \cup {EndOfInput, Interrupt}

NoteReads == NoteLines \cup {EndOfInput, Interrupt}

Next ==
    \/ NoTestsMatch
    \/ /\ pc = "start"
       /\ \E file \in ResumeFiles(CatalogIds(filtered)) \cup {NoResumeFlag} :
             ResumeAndConstruct(file)
    \/ \E raw \in Reads : BeginPrompt(raw)
    \/ LoopDone
    \/ SkipResumed
    \/ EnterTest
    \/ \E da \in DockerAnswers, sa \in SerialAnswers : ResolvePrereq(da, sa)
    \/ Present
    \/ /\ pc = "menu"
       /\ \E raw \in Reads, probes \in ProbeRuns :
             \E observed \in [1..NumChecks(verification) -> BOOLEAN] :
                Menu(raw, observed, probes)
    \/ \E raw \in NoteReads : NoteEntry(raw)
    \/ \E raw \in NoteReads : FailNote(raw)
    \/ \E raw \in Reads : Confirm(raw)
    \/ \E raw \in Reads : ManualPrompt(raw)
    \/ Finish
    \/ AtExit

Spec == Init /\ [][Next]_vars

\* ------------------------------------------------- load_resume on its own
\* load_resume applied to every prior report of the bounded shape
InitResume ==
    /\ args = Args(FALSE, FALSE, FALSE)
    /\ filtered = <<>>
    /\ pc = "load_resume"
    /\ completed_ids = {}
    /\ infra = NoInfra
    /\ env = InitialEnv
    /\ atexitHandlers = <<>>
    /\ cleanupCalls = 0
    /\ i = 0
    /\ pending = <<>>
    /\ note = None
    /\ results = <<>>
    /\ quit_requested = FALSE
    /\ clock = 0
    /\ test_start = 0
    /\ disk = EmptyDir
    /\ exit = "running"
    /\ presented = <<>>
    /\ prereqsOf = {}
    /\ inputsOf = {}
    /\ dockerLaunches = 0
    /\ resumeFile \in ResumeFiles(1..MaxTests)
    /\ resumeRet = NotCalled
    /\ call = NoCall
    /\ checks = <<>>
    /\ shown = "none"

CallLoadResume ==
    /\ pc = "load_resume"
    /\ resumeRet = NotCalled
    /\ resumeRet' = load_resume(resumeFile)
    /\ UNCHANGED <<inputVars, infraVars, ghostVars, dialogVars, reportVars, resumeFile, call, pc,
                   completed_ids, atexitHandlers, cleanupCalls,
                   i, pending, note, test_start, exit>>

NextResume == CallLoadResume

SpecResume == InitResume /\ [][NextResume]_vars

\* ---------------------------------- the Infrastructure methods on their own
\* An Infrastructure as main builds it, its start methods and
\* generate_connections called in any order, then cleanup, any number of times.
InitInfra ==
    /\ args \in ArgSets
    /\ filtered = <<>>
    /\ pc = "infra"
    /\ completed_ids = {}
    /\ infra = NewInfrastructure(args.skip_infra \/ args.skip_setup, args.keep_infra)
    /\ env \in {InitialEnv, StaleLinksEnv}
    /\ atexitHandlers = <<>>
    /\ cleanupCalls = 0
    /\ i = 0
    /\ pending = <<>>
    /\ note = None
    /\ results = <<>>
    /\ quit_requested = FALSE
    /\ clock = 0
    /\ test_start = 0
    /\ disk = EmptyDir
    /\ exit = "running"
    /\ presented = <<>>
    /\ prereqsOf = {}
    /\ inputsOf = {}
    /\ dockerLaunches = 0
    /\ resumeFile = NoResumeFlag
    /\ resumeRet = NotCalled
    /\ call = NoCall
    /\ checks = <<>>
    /\ shown = "none"

\* the call made, how the world answered, the world before it, what it
\* returned or raised
Called(op, answer, before, o) ==
    [op |-> op, answer |-> answer, before |-> before, ret |-> o.ret, raised |-> o.raised]

Calls(o, op, answer) ==
    /\ pc = "infra"
    /\ infra' = o.infra
    /\ env' = o.env
    /\ dockerLaunches' = dockerLaunches + o.launches
    /\ call' = Called(op, answer, [infra |-> infra, env |-> env], o)
    /\ UNCHANGED <<inputVars, ghostVars, dialogVars, reportVars, resumeFile, resumeRet, pc,
                   completed_ids, atexitHandlers, i, pending, note, test_start, exit>>

CallStartDocker(answer) ==
    /\ call.op # "cleanup"
    /\ LET o == start_docker(infra, env, answer)
       IN /\ o.launches = 0 \/ dockerLaunches < MaxLaunches
          /\ Calls(o, "start_docker", answer)
    /\ UNCHANGED cleanupCalls

CallStartSerial(answer) ==
    /\ call.op # "cleanup"
    /\ Calls(start_serial(infra, env, answer), "start_serial", answer)
    /\ UNCHANGED cleanupCalls

CallGenerateConnections ==
    /\ call.op # "cleanup"
    /\ infra.config_dir = None
    /\ Calls(generate_connections(infra, env), "generate_connections", "written")
    /\ UNCHANGED cleanupCalls

CallCleanup(fault) ==
    /\ cleanupCalls < MaxCleanups
    /\ Calls(cleanup(infra, env, fault), "cleanup", fault)
    /\ cleanupCalls' = cleanupCalls + 1

NextInfra ==
    \/ \E answer \in DockerAnswers : CallStartDocker(answer)
    \/ \E answer \in SerialAnswers : CallStartSerial(answer)
    \/ CallGenerateConnections
    \/ \E fault \in CleanupFaults : CallCleanup(fault)

SpecInfra == InitInfra /\ [][NextInfra]_vars

\* ------------------------------------------ generate_connections' content
\* A setup step: a mapping with a create_connection key (name, type, config)
\* or any other step.
CreateConnection(name, type, config) ==
    [isConn |-> TRUE, name |-> name, type |-> type, config |-> config]

OtherStep == [isConn |-> FALSE, name |-> None, type |-> None, config |-> None]

Steps ==
    {CreateConnection("A", "ssh", "cfg1"), CreateConnection("A", "serial", "cfg2"),
     CreateConnection("B", "ssh", "cfg1"), OtherStep}

SetupTest(id, setup) ==
    [id |-> id, prerequisites |-> <<>>, verification |-> Manual, setup |-> setup]

\* two tests, each with up to MaxSteps setup steps
SetupCatalogs ==
    {<<SetupTest(1, a), SetupTest(2, b)>> : a, b \in SeqsUpTo(Steps, MaxSteps)}

\* the steps of the tests one after the other, as the two loops of lines
\* 247-248 visit them
RECURSIVE AllSteps(_)
AllSteps(tests) ==
    IF tests = <<>> THEN <<>> ELSE Head(tests).setup \o AllSteps(Tail(tests))

Connection(step) == [name |-> step.name, type |-> step.type, config |-> step.config]

\* a collection in which a later declaration of a name replaces the entry
RECURSIVE CollectLastWins(_, _, _)
CollectLastWins(steps, seen_names, connections) ==
    IF steps = <<>> THEN connections
    ELSE LET step == Head(steps)
         IN IF ~step.isConn
            THEN CollectLastWins(Tail(steps), seen_names, connections)
            ELSE IF step.name \in seen_names
            THEN CollectLastWins(Tail(steps), seen_names,
                    [k \in 1..Len(connections) |->
                        IF connections[k].name = step.name THEN Connection(step)
                        ELSE connections[k]])
            ELSE CollectLastWins(Tail(steps), seen_names \cup {step.name},
                                 Append(connections, Connection(step)))

\* lines 244-262: the connections list
RECURSIVE Collect(_, _, _)
Collect(steps, seen_names, connections) ==
    IF steps = <<>> THEN connections
    ELSE LET step == Head(steps)
         IN IF ~step.isConn \/ step.name \in seen_names
            THEN Collect(Tail(steps), seen_names, connections)
            ELSE Collect(Tail(steps), seen_names \cup {step.name},
                         Append(connections, Connection(step)))

connections(tests) == Collect(AllSteps(tests), {}, <<>>)

\* the state every method called on its own starts from
AtRest ==
    /\ completed_ids = {}
    /\ atexitHandlers = <<>>
    /\ cleanupCalls = 0
    /\ i = 0
    /\ pending = <<>>
    /\ note = None
    /\ results = <<>>
    /\ quit_requested = FALSE
    /\ clock = 0
    /\ test_start = 0
    /\ disk = EmptyDir
    /\ exit = "running"
    /\ presented = <<>>
    /\ prereqsOf = {}
    /\ inputsOf = {}
    /\ dockerLaunches = 0
    /\ resumeFile = NoResumeFlag
    /\ resumeRet = NotCalled
    /\ checks = <<>>
    /\ shown = "none"

InitConnections ==
    /\ call = NoCall
    /\ args = Args(FALSE, FALSE, FALSE)
    /\ filtered \in SetupCatalogs
    /\ pc = "connections"
    /\ infra = NewInfrastructure(FALSE, FALSE)
    /\ env = InitialEnv
    /\ AtRest

\* everything but the call under test and what it acts on
restVars ==
    <<args, filtered, completed_ids, atexitHandlers, cleanupCalls, pending, note,
      results, quit_requested, test_start, disk, exit, presented, prereqsOf, inputsOf,
      dockerLaunches, resumeFile, resumeRet, checks, shown>>

CallConnections ==
    /\ pc = "connections"
    /\ call = NoCall
    /\ LET g == generate_connections(infra, env)
       IN /\ infra' = g.infra
          /\ env' = g.env
    /\ call' = [op |-> "connections", ret |-> connections(filtered)]
    /\ UNCHANGED <<restVars, pc, i, clock>>

NextConnections == CallConnections

SpecConnections == InitConnections /\ [][NextConnections]_vars

\* ------------------------------------------------------- the bounded waits
\* Time is counted in half seconds.
\* time.sleep(1) of line 293
PortSleep == 2
\* create_connection(..., timeout=1) of line 289
ConnectTimeout == 2
\* time.sleep(0.5) of line 235
SerialSleep == 1
\* range(20) of line 233
SerialPolls == 20

\* what one connection attempt can meet: the port accepts, the port refuses at
\* once (ConnectionRefusedError, OSError), or nothing answers within the
\* connect timeout (socket.timeout)
ConnectOutcomes == {"connected", "refused", "timed_out"}

Waiting(op, timeout) == [op |-> op, timeout |-> timeout, attempts |-> <<>>, returned |-> FALSE, ret |-> FALSE]

\* i is the loop index, clock the time elapsed since the wait began
InitWait ==
    /\ args = Args(FALSE, FALSE, FALSE)
    /\ filtered = <<>>
    /\ infra = NewInfrastructure(FALSE, FALSE)
    /\ env = InitialEnv
    /\ AtRest
    /\ \/ /\ pc = "wait_port"
          /\ \E timeout \in 1..MaxTimeout : call = Waiting("_wait_for_port", timeout)
       \/ /\ pc = "wait_links"
          /\ call = Waiting("wait_links", SerialPolls)

\* lines 287-293: one round of _wait_for_port's loop
PortAttempt(outcome) ==
    /\ pc = "wait_port"
    /\ ~call.returned
    /\ i < call.timeout
    /\ IF outcome = "connected"
       THEN /\ call' = [call EXCEPT !.attempts = Append(@, outcome), !.returned = TRUE, !.ret = TRUE]
            /\ UNCHANGED <<i, clock>>
       ELSE /\ call' = [call EXCEPT !.attempts = Append(@, outcome)]
            /\ i' = i + 1
            /\ clock' = clock + (IF outcome = "timed_out" THEN ConnectTimeout ELSE 0) + PortSleep
    /\ UNCHANGED <<restVars, infra, env, pc>>

\* lines 294-295: the loop is exhausted
PortGiveUp ==
    /\ pc = "wait_port"
    /\ ~call.returned
    /\ i = call.timeout
    /\ call' = [call EXCEPT !.returned = TRUE]
    /\ UNCHANGED <<restVars, infra, env, pc, i, clock>>

\* lines 233-235: one round of start_serial's wait for the two links
LinkPoll(present) ==
    /\ pc = "wait_links"
    /\ ~call.returned
    /\ i < SerialPolls
    /\ IF present
       THEN /\ call' = [call EXCEPT !.attempts = Append(@, "present"), !.returned = TRUE, !.ret = TRUE]
            /\ UNCHANGED <<i, clock>>
       ELSE /\ call' = [call EXCEPT !.attempts = Append(@, "absent")]
            /\ i' = i + 1
            /\ clock' = clock + SerialSleep
    /\ UNCHANGED <<restVars, infra, env, pc>>

\* lines 237-238
LinkGiveUp ==
    /\ pc = "wait_links"
    /\ ~call.returned
    /\ i = SerialPolls
    /\ call' = [call EXCEPT !.returned = TRUE]
    /\ UNCHANGED <<restVars, infra, env, pc, i, clock>>

NextWait ==
    \/ \E outcome \in ConnectOutcomes : PortAttempt(outcome)
    \/ PortGiveUp
    \/ \E present \in BOOLEAN : LinkPoll(present)
    \/ LinkGiveUp

SpecWait == InitWait /\ [][NextWait]_vars

\* ------------------------------------------------------------ filter_tests
PlatformNames == {"linux", "macos", "windows"}

\* the platforms key of a test: absent, or a list over these values
PlatformLists == SUBSET {"linux", "macos", "all"}

PlatformTest(id, category, hasPlatforms, platforms) ==
    [id |-> id, _category |-> category, hasPlatforms |-> hasPlatforms,
     platforms |-> platforms]

PlatformChoices(id, category) ==
    {PlatformTest(id, category, TRUE, p) : p \in PlatformLists}
        \cup {PlatformTest(id, category, FALSE, {})}

\* what load_tests returns: three tests of two categories
LoadedCatalogs ==
    {<<a, b, c>> : a \in PlatformChoices("T1", "ssh"),
                   b \in PlatformChoices("T2", "serial"),
                   c \in PlatformChoices("T3", "ssh")}

\* a filter that gives "all" no special meaning
RECURSIVE filter_tests_exact_platform(_, _, _, _)
filter_tests_exact_platform(tests, current_platform, category, test_id) ==
    IF tests = <<>> THEN <<>>
    ELSE LET t == Head(tests)
             rest == filter_tests_exact_platform(Tail(tests), current_platform, category, test_id)
         IN IF t.hasPlatforms /\ current_platform \notin t.platforms THEN rest
            ELSE IF category # None /\ t._category # category THEN rest
            ELSE IF test_id # None /\ t.id # test_id THEN rest
            ELSE <<t>> \o rest

\* lines 132-142
RECURSIVE filter_tests(_, _, _, _)
filter_tests(tests, current_platform, category, test_id) ==
    IF tests = <<>> THEN <<>>
    ELSE LET t == Head(tests)
             platforms == IF t.hasPlatforms THEN t.platforms ELSE {"all"}
             rest == filter_tests(Tail(tests), current_platform, category, test_id)
         IN IF current_platform \notin platforms /\ "all" \notin platforms THEN rest
            ELSE IF category # None /\ t._category # category THEN rest
            ELSE IF test_id # None /\ t.id # test_id THEN rest
            ELSE <<t>> \o rest

\* all_tests of line 790 is held in call until line 803 filters it
InitFilter ==
    /\ args = Args(FALSE, FALSE, FALSE)
    /\ filtered = <<>>
    /\ pc = "filter"
    /\ infra = NewInfrastructure(FALSE, FALSE)
    /\ env = InitialEnv
    /\ AtRest
    /\ \E all_tests \in LoadedCatalogs : call = [op |-> "load_tests", ret |-> all_tests]

\* line 803
CallFilterTests(plat, category, test_id) ==
    /\ pc = "filter"
    /\ call.op = "load_tests"
    /\ filtered' = filter_tests(call.ret, plat, category, test_id)
    /\ call' = [op |-> "filter_tests", tests |-> call.ret, current_platform |-> plat,
                category |-> category, test_id |-> test_id]
    /\ UNCHANGED <<args, completed_ids, atexitHandlers, cleanupCalls, pending, note,
                   results, quit_requested, test_start, disk, exit, presented, prereqsOf,
                   inputsOf, dockerLaunches, resumeFile, resumeRet, checks, shown,
                   infra, env, pc, i, clock>>

NextFilter ==
    \E plat \in PlatformNames, category \in {None, "ssh", "serial"},
       test_id \in {None, "T1", "T2"} :
        CallFilterTests(plat, category, test_id)

SpecFilter == InitFilter /\ [][NextFilter]_vars

\* ------------------------------------------------------------- properties
CatalogOrder == [j \in 1..Len(filtered) |-> filtered[j].id]

Returns == {"return 0", "return 1"}

Range(seq) == {seq[k] : k \in 1..Len(seq)}

LatestFile == CHOOSE p \in DOMAIN disk : \A q \in DOMAIN disk : q <= p

\* the results of the report written last, none when no report was written
SavedResults == IF DOMAIN disk = {} THEN <<>> ELSE disk[LatestFile].results

\* C1: with unique ids, when the operator quits at test i the step that ends
\* the session leaves one result per test in catalog order: the results of
\* the tests before i are the ones recorded (a verdict or the resume skip),
\* test i is not_run, every later test is not_run with duration 0 and no note.
C1_QuitAtK ==
    [][(pc = "finish" /\ quit_requested /\ UniqueIds(filtered)) =>
         /\ Ids(results') = CatalogOrder
         /\ \A j \in 1..(i - 1) :
               /\ results'[j] = results[j]
               /\ results[j].status \in {"passed", "failed", "skipped"}
         /\ results'[i].status = "not_run"
         /\ \A j \in (i + 1)..Len(filtered) :
               /\ results'[j].status = "not_run"
               /\ results'[j].duration_seconds = 0
               /\ results'[j].note = None]_vars

C1_Witness ==
    /\ pc = "terminated"
    /\ quit_requested
    /\ UniqueIds(filtered)
    /\ Len(filtered) = 3
    /\ Len(results) = 3
    /\ i = 2
    /\ results[1].status = "failed"
    /\ results[1].note = "txt"
    /\ results[3].status = "not_run"

\* C2: a session that entered the test loop and returned from main (all tests
\* run, or quit) ends with one result per test of the catalog, the result ids
\* in catalog order, and the final report on disk holds exactly these results.
\* Test ids are unique (data model); catalogs with a repeated id are left out.
C2_OneResultPerTest ==
    (pc \in {"exiting", "terminated"} /\ exit \in Returns /\ i >= 1
        /\ UniqueIds(filtered)) =>
        /\ Ids(results) = CatalogOrder
        /\ SavedResults = results
        /\ disk[LatestFile].summary.total = Len(filtered)

C2_Witness ==
    /\ pc = "terminated"
    /\ ~quit_requested
    /\ Len(filtered) = 3
    /\ Len(results) = 3
    /\ UniqueIds(filtered)
    /\ completed_ids = {2}
    /\ results[1].status = "passed"
    /\ results[3].status = "failed"

\* C3: a session that entered the test loop and ended by finishing, by quit
\* or by an interrupt signal has written a final report that holds a result
\* for every test, and has run cleanup exactly once.
C3_InterruptLikeQuit ==
    (pc = "terminated" /\ i >= 1 /\ UniqueIds(filtered)
        /\ exit \in Returns \cup {"KeyboardInterrupt"}) =>
        /\ Ids(SavedResults) = CatalogOrder
        /\ \A j \in 1..Len(SavedResults) :
              j > Len(results) => SavedResults[j].status = "not_run"
        /\ cleanupCalls = 1

\* C4: once the Infrastructure is built, cleanup has run exactly once when the
\* process has ended, whatever ended it, and not at all before.
C4_CleanupOnce ==
    /\ infra.built => cleanupCalls = (IF pc = "terminated" THEN 1 ELSE 0)
    /\ ~infra.built => cleanupCalls = 0

C4_Witness ==
    /\ pc = "terminated"
    /\ exit = "KeyboardInterrupt"
    /\ infra.docker_started
    /\ ~env.stackUp
    /\ cleanupCalls = 1

\* C5: while the test loop runs, every result recorded so far is in the
\* report written last, so a process killed there loses no resolved test.
C5_SavedBeforeNextTest ==
    pc \in {"loop", "prereq", "menu", "note", "failnote", "confirm_pass",
            "confirm_fail", "manual"} => SavedResults = results

\* C6: all reports of a session go to one file.
C6_OneReportFile == Cardinality(DOMAIN disk) <= 1

IsResumeSkip(r) == r.status = "skipped" /\ r.note = ResumeNote

ExpectedIds(file) ==
    {e.id : e \in {r \in Range(file.results) :
                      r.status \in {"passed", "failed", "skipped"}}}

WellFormed(file) ==
    /\ file.kind = "object"
    /\ \A r \in Range(file.results) : r.isObj /\ r.hasId

\* C8: load_resume returns for every well-formed report, and what it returns
\* is the set of ids of the entries whose status is passed, failed or
\* skipped; an id all of whose entries are not_run is not in it.
C8_ResumeIds ==
    /\ (resumeRet # NotCalled /\ WellFormed(resumeFile)) => resumeRet.raised = "none"
    /\ resumeRet.raised = "none" =>
          /\ resumeRet.completed = ExpectedIds(resumeFile)
          /\ \A n \in 1..MaxTests :
                (\A r \in Range(resumeFile.results) : r.id = n => r.status = "not_run")
                   => n \notin resumeRet.completed

C8_Witness ==
    /\ resumeRet.raised = "none"
    /\ Len(resumeFile.results) = 2
    /\ resumeFile.results[1].status = "not_run"
    /\ resumeFile.results[1].id = 2
    /\ resumeFile.results[2].status = "failed"
    /\ resumeFile.results[2].id = 1
    /\ resumeRet.completed = {1}

\* C9: no resume file ends the process with an error: an exception never
\* leaves main before the Infrastructure is built.
C9_ResumeNeverFatal == infra.built \/ exit \in Returns \cup {"running"}

\* C10: the container stack is launched at most once in a session.
C10_LaunchOnce == dockerLaunches <= 1

\* C11: whatever start_docker and start_serial meet, a test whose
\* prerequisites were gone through is presented: short of an interrupt signal
\* the session does not end with a test prepared but never shown.
C11_PrereqNeverBlocks ==
    (pc = "terminated" /\ exit # "KeyboardInterrupt") => prereqsOf \subseteq Range(presented)

\* C12: start_docker returns True exactly when port 2201 answered within the
\* timeout (or the stack was already marked started), and False when the
\* stack was launched but the port did not answer.
C12_FalseOnPortTimeout ==
    (call.op = "start_docker" /\ call.raised = "none"
        /\ ~call.before.infra.skip_infra /\ ~call.before.infra.docker_started) =>
        /\ call.answer = "port_timeout" => call.ret = FALSE
        /\ call.ret = TRUE => (call.answer = "ready" /\ infra.docker_started)

\* C13: start_serial never raises (an interrupt signal aside); a first call
\* returns False when socat is absent and when the links do not appear within
\* the polling bound.
C13_SerialNeverRaises ==
    (call.op = "start_serial" /\ call.answer # "interrupted") =>
        /\ call.raised = "none"
        /\ (call.before.infra.socat_proc = None
               /\ call.answer \in {"tool_absent", "popen_not_found", "links_timeout"})
              => call.ret = FALSE

\* nothing of the Infrastructure was started
NothingStarted(inf) ==
    inf.socat_proc = None /\ ~inf.docker_started /\ inf.config_dir = None

FaultFree == {"none", "wait_timeout"}

\* C14: a cleanup in which no step fails leaves the Infrastructure object as
\* it was and the resources in a state that another cleanup leaves alone; a
\* cleanup right after one changes nothing; a cleanup of an Infrastructure
\* that started nothing changes nothing.
C14_CleanupIdempotent ==
    [][(call'.op = "cleanup" /\ call'.answer \in FaultFree) =>
          /\ call'.raised = "none"
          /\ infra' = infra
          /\ LET again == cleanup(infra', env', "none")
             IN again.raised = "none" /\ again.infra = infra' /\ again.env = env'
          /\ (call.op = "cleanup" /\ call.answer \in FaultFree) => env' = env
          /\ NothingStarted(infra) => env' = env]_vars

C14_Witness ==
    /\ cleanupCalls = 2
    /\ call.op = "cleanup"
    /\ call.answer = "none"
    /\ infra.socat_proc # None /\ infra.docker_started /\ infra.config_dir # None
    /\ ~infra.keep_infra
    /\ call.before.env = env
    /\ env = InitialEnv

\* C15: in a cleanup where one step fails, the steps after it are still carried out:
\* the stack this Infrastructure started is stopped (keep_infra unset, "down"
\* itself not failing) and the generated config dir is gone.
C15_StepsIndependent ==
    (call.op = "cleanup" /\ call.answer # "none") =>
        /\ ~env.configDirExists
        /\ (infra.docker_started /\ ~infra.keep_infra /\ call.answer # "down_failed")
              => ~env.stackUp
        /\ ~env.socatRunning

\* C16: after a cleanup in which no step failed nothing the session launched
\* is left: no bridge process, no config dir and, keep_infra unset, no
\* container of the stack.
C16_NoLeak ==
    (call.op = "cleanup" /\ call.answer \in FaultFree) =>
        /\ ~env.socatRunning
        /\ ~env.configDirExists
        /\ ~infra.keep_infra => ~env.stackUp

Confirmations == {"confirm_pass", "confirm_fail"}

\* C17: for a combined verification every answer to the confirmation that
\* follows the checks, quit aside, leads to the manual prompt: no verdict is
\* recorded and no failure note asked for before it was shown.
C17_ManualPromptAlways ==
    [][(verification.type = "combined" /\ pc \in Confirmations /\ pc' # pc) =>
          (pc' = "manual" /\ shown' = "manual_prompt") \/ quit_requested']_vars

\* C18: a combined verification yields one check per automated entry, in
\* order; its automated stage passes exactly when every entry passed, and
\* with no entry it passes: it is never taken for a test without checks.
C18_CombinedPasses ==
    verification.type = "combined" =>
        /\ shown # "no_checks"
        /\ pc \in Confirmations =>
              /\ Len(checks) = Len(verification.automated)
              /\ pc = "confirm_pass" <=> AllPassed(checks)

\* C19: run_verification never raises: no exception other than an interrupt
\* signal ends the session while the operator is asked about a test.
C19_VerificationNeverRaises ==
    (pc \in {"exiting", "terminated"} /\ exit \notin Returns \cup {"KeyboardInterrupt"})
        => i \notin inputsOf

Prompts == {"menu", "note", "failnote", "manual"} \cup Confirmations

VerdictLoopAsClaimed ==
    pc \in Prompts =>
        /\ Len(results') > Len(results) =>
              /\ pc' \in {"loop", "finish"}
              /\ results'[Len(results')].status \in
                    {"passed", "failed", "skipped", "not_run"}
              /\ results'[Len(results')].status = "not_run" <=> quit_requested'
        /\ shown' = "menu_help" => (pc = "menu" /\ pc' = "menu" /\ ~verification.isDict)
        /\ (pc \in Confirmations \cup {"manual"} /\ pc' \in {"menu", "manual"} /\ pc' # pc)
              => shown' = "unknown_input"

\* C20: a step of the verdict loop records a result only with one of the
\* four outcomes; an empty line at the key menu of a test without
\* verification prints the keys and asks again; an answer a confirmation or
\* the manual prompt does not recognise asks again with the error message.
C20_NoSilentFallThrough == [][VerdictLoopAsClaimed]_vars

\* C21: when a session that ran the test loop has ended, the exit code of the
\* process is non-zero exactly when some result has status failed.
C21_ExitCodeIffFailed ==
    (pc = "terminated" /\ i >= 1) =>
        (exit # "return 0" <=> \E k \in 1..Len(results) : results[k].status = "failed")

\* number of results of a report with status s
WithStatus(report, s) ==
    Cardinality({k \in 1..Len(report.results) : report.results[k].status = s})

\* C22: in every report written, total is the number of results and the sum
\* of the four counts, each count is the number of results with that status,
\* and every status is one of passed, failed, skipped, not_run.
C22_SummaryConsistent ==
    \A p \in DOMAIN disk :
        LET report == disk[p]
            sum == report.summary
        IN /\ sum.total = Len(report.results)
           /\ sum.total = sum.passed + sum.failed + sum.skipped + sum.not_run
           /\ sum.passed = WithStatus(report, "passed")
           /\ sum.failed = WithStatus(report, "failed")
           /\ sum.skipped = WithStatus(report, "skipped")
           /\ sum.not_run = WithStatus(report, "not_run")
           /\ \A k \in 1..Len(report.results) :
                 report.results[k].status \in {"passed", "failed", "skipped", "not_run"}

C22_Witness ==
    /\ pc = "terminated"
    /\ quit_requested
    /\ DOMAIN disk # {}
    /\ disk[LatestFile].summary =
          [total |-> 3, passed |-> 1, failed |-> 0, skipped |-> 1, not_run |-> 1]
    /\ Cardinality(DOMAIN disk) = 2

\* index of the first step that declares connection name n
FirstDeclared(steps, n) ==
    CHOOSE k \in 1..Len(steps) :
        /\ steps[k].isConn /\ steps[k].name = n
        /\ \A j \in 1..(k - 1) : ~(steps[j].isConn /\ steps[j].name = n)

\* C23: the connections generate_connections emits have distinct names, one
\* for every name declared; each carries type and config of the first
\* declaration of its name in catalog order, and they are in the order of
\* these first declarations.
C23_FirstDeclarationKept ==
    call.op = "connections" =>
        LET steps == AllSteps(filtered)
            out == call.ret
            declared == {steps[k].name : k \in {j \in 1..Len(steps) : steps[j].isConn}}
        IN /\ \A j, k \in 1..Len(out) : out[j].name = out[k].name => j = k
           /\ {out[k].name : k \in 1..Len(out)} = declared
           /\ \A k \in 1..Len(out) :
                 LET first == steps[FirstDeclared(steps, out[k].name)]
                 IN out[k].type = first.type /\ out[k].config = first.config
           /\ \A j, k \in 1..Len(out) :
                 j < k => FirstDeclared(steps, out[j].name) < FirstDeclared(steps, out[k].name)

C23_Witness ==
    /\ call.op = "connections"
    /\ filtered[1].setup = <<CreateConnection("B", "ssh", "cfg1"), CreateConnection("A", "ssh", "cfg1")>>
    /\ filtered[2].setup = <<CreateConnection("A", "serial", "cfg2")>>
    /\ call.ret = <<[name |-> "B", type |-> "ssh", config |-> "cfg1"],
                    [name |-> "A", type |-> "ssh", config |-> "cfg1"]>>

\* C24: a wait for a port with timeout T and poll interval 1 s never lets more
\* than T seconds elapse and returns false once the port has not opened in
\* that time; the wait for the serial links returns false after 10 s when
\* the links never appear.
C24_WaitsWithinTimeout ==
    /\ call.op = "_wait_for_port" =>
          /\ clock <= call.timeout * PortSleep
          /\ i <= call.timeout
          /\ (i = call.timeout /\ call.returned) => ~call.ret
    /\ call.op = "wait_links" =>
          /\ clock <= SerialPolls * SerialSleep
          /\ (i = SerialPolls /\ call.returned) =>
                (~call.ret /\ clock = SerialPolls * SerialSleep)

\* the same with the time a connection attempt itself may take counted in
C24_WithinTwiceTimeout ==
    /\ call.op = "_wait_for_port" =>
          /\ clock <= call.timeout * (ConnectTimeout + PortSleep)
          /\ i <= call.timeout
          /\ (i = call.timeout /\ call.returned) => ~call.ret
    /\ call.op = "wait_links" =>
          /\ clock <= SerialPolls * SerialSleep
          /\ (i = SerialPolls /\ call.returned) =>
                (~call.ret /\ clock = SerialPolls * SerialSleep)

\* the tests of a catalog whose platform list names "all" or the platform, a
\* test without a platform list counting as "all"
ForPlatform(tests, plat) ==
    {k \in 1..Len(tests) :
        \/ ~tests[k].hasPlatforms
        \/ "all" \in tests[k].platforms
        \/ plat \in tests[k].platforms}

\* C25: with no category and no id filter, filter_tests returns exactly the
\* tests whose platform list contains "all" or the current platform (a test
\* without a platform list counts as "all"), in catalog order.
C25_PlatformFilter ==
    (call.op = "filter_tests" /\ call.category = None /\ call.test_id = None) =>
        LET kept == ForPlatform(call.tests, call.current_platform)
        IN /\ Len(filtered) = Cardinality(kept)
           /\ \A k \in kept : \E j \in 1..Len(filtered) : filtered[j] = call.tests[k]
           /\ \A a, b \in 1..Len(filtered) :
                 a < b => \E k, l \in kept :
                            k < l /\ filtered[a] = call.tests[k] /\ filtered[b] = call.tests[l]

C25_Witness ==
    /\ call.op = "filter_tests"
    /\ call.category = None
    /\ call.test_id = None
    /\ call.current_platform = "linux"
    /\ call.tests = <<PlatformTest("T1", "ssh", TRUE, {"linux"}),
                      PlatformTest("T2", "serial", TRUE, {"macos"}),
                      PlatformTest("T3", "ssh", TRUE, {"all"})>>
    /\ filtered = <<PlatformTest("T1", "ssh", TRUE, {"linux"}),
                    PlatformTest("T3", "ssh", TRUE, {"all"})>>

StartOfStarted ==
    /\ (call'.op = "start_docker" /\ (infra.docker_started \/ infra.skip_infra)) =>
          /\ infra' = infra
          /\ env' = env
          /\ dockerLaunches' = dockerLaunches
          /\ call'.raised = "none"
          /\ call'.ret = infra.docker_started
    /\ (call'.op = "start_serial" /\ infra.socat_proc # None) =>
          /\ infra' = infra
          /\ env' = env
          /\ dockerLaunches' = dockerLaunches
          /\ call'.raised = "none"
          /\ call'.ret = TRUE

\* C26: start_docker called when docker_started is true or infrastructure is
\* skipped launches nothing and leaves the manager and its environment as
\* they were, returning docker_started; start_serial called while a bridge
\* handle is held spawns nothing and leaves them as they were.
C26_StartOfStartedIsNoOp == [][StartOfStarted]_vars

C26_Witness ==
    /\ call.op = "start_serial"
    /\ call.answer = "links_timeout"
    /\ call.before.infra.socat_proc # None
    /\ call.before.infra.docker_started
    /\ call.before.env.linksExist
    /\ infra = call.before.infra
    /\ env = call.before.env

\* C27: a cleanup stops the container stack if and only if this
\* Infrastructure started it (docker_started) and keep_infra is not set
\* ("docker compose down" itself not failing).
C27_StopsOwnStackOnly ==
    (call.op = "cleanup" /\ call.answer # "down_failed" /\ call.before.env.stackUp) =>
        (~env.stackUp <=> (call.before.infra.docker_started /\ ~call.before.infra.keep_infra))

\* the direction that holds in every cleanup: a stack is stopped only if
\* docker_started is set and keep_infra is not
C27_StopsOnlyOwnStack ==
    (call.op = "cleanup" /\ call.before.env.stackUp /\ ~env.stackUp) =>
        (call.before.infra.docker_started /\ ~call.before.infra.keep_infra)

\* and the other direction in every cleanup whose earlier steps do not raise
C27_StopsOwnStackUnlessRaised ==
    (call.op = "cleanup" /\ call.answer # "down_failed" /\ call.raised = "none"
        /\ call.before.infra.docker_started /\ ~call.before.infra.keep_infra) =>
        ~env.stackUp

\* this step records the verdict `status` for the test at hand
Yields(status) ==
    /\ Len(results') = Len(results) + 1
    /\ results'[Len(results')].id = filtered[i].id
    /\ results'[Len(results')].status = status

\* what the answer `raw` to the confirmation prompt must lead to, by the
\* checks that were displayed
ConfirmationAsClaimed(raw) ==
    LET confirm == get_input(raw)
        all_passed == \A k \in 1..Len(checks) : checks[k]
    IN /\ checks # <<>>
       /\ shown = (IF all_passed THEN "all_passed" ELSE "some_failed")
       /\ (confirm = "" /\ all_passed) => Yields("passed")
       /\ (confirm = "" /\ ~all_passed) => pc' = "failnote"
       /\ confirm = "p" => Yields("passed")
       /\ confirm = "f" => pc' = "failnote"
       /\ confirm = "s" => Yields("skipped")
       /\ confirm = "q" => (Yields("not_run") /\ quit_requested')

ConfirmationStep ==
    /\ \A raw \in Reads : Confirm(raw) => ConfirmationAsClaimed(raw)
    /\ (pc = "failnote" /\ results' # results) => Yields("failed")

\* C28: after the checks were displayed, an empty line at the confirmation
\* prompt yields passed when all checks passed and failed (by way of the
\* failure note prompt) when one failed; p, f, s and q at that prompt yield
\* passed, failed, skipped and quit whatever the checks say.
C28_ConfirmationDefault == [][ConfirmationStep]_vars

C28_Witness ==
    /\ pc = "failnote"
    /\ checks # <<>>
    /\ \E k \in 1..Len(checks) : ~checks[k]
    /\ i \in inputsOf
    /\ filtered[i].verification.isDict

OneAtATimeInOrder ==
    /\ presented' # presented =>
          /\ presented' = Append(presented, i)
          /\ \A k \in 1..Len(presented) : presented[k] < i
          /\ Len(results) = i - 1
          /\ i \in prereqsOf
          /\ pending = <<>>
    /\ inputsOf' # inputsOf =>
          /\ inputsOf' = inputsOf \cup {i}
          /\ presented # <<>>
          /\ presented[Len(presented)] = i
    /\ prereqsOf' # prereqsOf => (prereqsOf' = prereqsOf \cup {i} /\ Len(results) = i - 1)
    /\ (infra' # infra \/ dockerLaunches' # dockerLaunches) => pc \in {"start", "begin", "prereq"}
    /\ quit_requested =>
          /\ presented' = presented
          /\ inputsOf' = inputsOf
          /\ prereqsOf' = prereqsOf
          /\ infra' = infra
          /\ dockerLaunches' = dockerLaunches

\* C29: tests are handled in catalog order, one at a time: a test is
\* presented only when every test before it has its result and the loop
\* over its own prerequisites has ended, a verdict is read only for the test
\* presented last, and after a quit verdict nothing is presented, no verdict
\* is read and no infrastructure is started.
C29_CatalogOrder == [][OneAtATimeInOrder]_vars

C29_Witness ==
    /\ pc = "terminated"
    /\ quit_requested
    /\ presented = <<1>>
    /\ Len(filtered) = 2
    /\ filtered[1].prerequisites # <<>>
    /\ filtered[2].prerequisites # <<>>
    /\ infra.docker_started
    /\ inputsOf = {1}
    /\ prereqsOf = {1}
    /\ Len(results) = 2

\* C30: whenever start_serial returns True this Infrastructure holds the
\* bridge process it spawned and both link paths exist.
C30_TrueMeansLinksExist ==
    (call.op = "start_serial" /\ call.raised = "none" /\ call.ret) =>
        (infra.socat_proc # None /\ env.linksExist)

\* what does hold: True comes with a bridge handle, and the first call that
\* spawns the bridge returns True only with both links present
C30_TrueMeansBridgeHeld ==
    (call.op = "start_serial" /\ call.raised = "none" /\ call.ret) =>
        /\ infra.socat_proc # None
        /\ call.before.infra.socat_proc = None => env.linksExist

\* the step reads `raw` at one of the key prompts of get_test_result
ReadAtKeyPrompt(raw) ==
    \/ Menu(raw, [k \in 1..NumChecks(verification) |-> TRUE], "answered")
    \/ Confirm(raw)
    \/ ManualPrompt(raw)

\* the step reads `raw` at one of the two note prompts
ReadAtNotePrompt(raw) == NoteEntry(raw) \/ FailNote(raw)

\* the verdict loop ends with quit, the marker not being kept as the note
EndsWithQuit(raw) ==
    /\ Yields("not_run")
    /\ quit_requested'
    /\ results'[Len(results')].note # get_input(raw)

InterruptAtAnyPrompt ==
    \A raw \in {EndOfInput, Interrupt} :
        (ReadAtKeyPrompt(raw) \/ ReadAtNotePrompt(raw)) => EndsWithQuit(raw)

InterruptAtKeyPrompt ==
    \A raw \in {EndOfInput, Interrupt} :
        ReadAtKeyPrompt(raw) =>
            /\ Yields("not_run")
            /\ quit_requested'
            /\ results'[Len(results')].note = note

\* C31: an end of input or an interrupt at any prompt of the verdict loop
\* (key menu, note entry, failure note, confirmation, manual prompt) ends
\* the loop with quit: the test at hand is recorded as not_run and the
\* marker get_input returns is not stored as its note.
C31_InterruptQuits == [][InterruptAtAnyPrompt]_vars

\* at the prompts that read a key the loop does end with quit, the note
\* recorded being the one taken before
C31_InterruptQuitsAtKeyPrompts == [][InterruptAtKeyPrompt]_vars

====
